---- MODULE Spec2Model ----
(***************************************************************************)
(* pyMOR parameter functionals (src/pymor/parameters/functionals.py) and   *)
(* the matrix loader (src/pymor/tools/io.py) as state machines.            *)
(*                                                                         *)
(* Spec        : functional instances are constructed, evaluated, pickled  *)
(*               and restored; the class-level dict                        *)
(*               ExpressionParameterFunctional.functions is shared state.  *)
(* SpecLoader  : load_matrix is called on a path/key/file content.         *)
(***************************************************************************)
EXTENDS Integers, Sequences, FiniteSets, TLC

\* py        : the major version of the Python interpreter
\* functions : the keys of the class attribute ExpressionParameterFunctional.functions
\* objs      : the functional instances
\* last      : the last evaluate call and its outcome
\* file      : the content of the file load_matrix is pointed at, and the
\*             class of the exception numpy.load raises on a file it cannot read
\* call      : the last load_matrix call and its outcome
VARIABLES py, functions, objs, last, file, call

vars == <<py, functions, objs, last, file, call>>

(***************************************************************************)
(* Bounds                                                                  *)
(***************************************************************************)
\* number of functional instances alive at once
MaxInst == 2

Inst == 1 .. MaxInst

(***************************************************************************)
(* Values                                                                  *)
(***************************************************************************)
\* A runtime value: k is its kind, sh/d the shape and row-major data of a
\* numeric array (a scalar has shape <<>>), s the names that make up a
\* non-numeric object or the numpy functions applied to a numeric one.
Val(k, sh, d, s) == [k |-> k, sh |-> sh, d |-> d, s |-> s]

Num(sh, d) == Val("arr", sh, d, <<>>)

Scalar(n) == Num(<<>>, <<n>>)

Str(x) == Val("str", <<>>, <<>>, <<x>>)

NpFunc(f) == Val("npfunc", <<>>, <<>>, <<f>>)

Builtin(f) == Val("builtin", <<>>, <<>>, <<f>>)

Module(m) == Val("module", <<>>, <<>>, <<m>>)

Err(e) == Val("err", <<>>, <<>>, <<e>>)

NoValue == Val("none", <<>>, <<>>, <<>>)

\* an array as it is stored in a parameter value
Arr(sh, d) == [sh |-> sh, d |-> d]

\* the scalar array that holds no number (numpy's array(None))
NoneArr == Arr(<<>>, <<>>)

ArrVal(a) == IF a = NoneArr THEN NoValue ELSE Num(a.sh, a.d)

RECURSIVE SumSeq(_)
SumSeq(s) == IF s = <<>> THEN 0 ELSE Head(s) + SumSeq(Tail(s))

RECURSIVE ProdSeq(_)
ProdSeq(s) == IF s = <<>> THEN 1 ELSE Head(s) * ProdSeq(Tail(s))

(***************************************************************************)
(* Constructor arguments                                                   *)
(***************************************************************************)
\* parameter_shape: a Number or a tuple
IntShape(n) == [k |-> "int", n |-> n, t |-> <<>>]

TupleShape(t) == [k |-> "tuple", n |-> 0, t |-> t]

\* coordinates: None, an integer or a tuple of integers
NoneC == [k |-> "none", n |-> 0, t |-> <<>>]

IntC(n) == [k |-> "int", n |-> n, t |-> <<>>]

TupleC(t) == [k |-> "tuple", n |-> 0, t |-> t]

NoneName == "None"

\* the empty mapping
EmptyMap == [n \in {} |-> TupleShape(<<>>)]

(***************************************************************************)
(* Parameter types and parameter values (interfaces of the Parametric base *)
(* class; the base class is not part of the sources)                       *)
(***************************************************************************)
\* lines 33-34: a bare number N becomes () if N == 0 else (N,)
Normalize(parameter_shape) ==
    IF parameter_shape.k = "int"
    THEN (IF parameter_shape.n = 0 THEN <<>> ELSE <<parameter_shape.n>>)
    ELSE parameter_shape.t

\* build_parameter_type: the declaration with every shape normalized
BuildParameterType(decl) ==
    [n \in DOMAIN decl |-> TupleShape(Normalize(decl[n]))]

\* a parameter value passed to evaluate: None or a mapping name -> array
NoneMu == [none |-> TRUE, m |-> EmptyMap]

Mu(m) == [none |-> FALSE, m |-> m]

\* whether a mapping conforms to a parameter type: every declared name is
\* present with exactly the declared shape
Conforms(ptype, mu) ==
    /\ ~mu.none
    /\ \A n \in DOMAIN ptype : n \in DOMAIN mu.m /\ mu.m[n].sh = ptype[n].t

\* parse_parameter: the validated value, which binds exactly the declared
\* names, or a type mismatch. None is accepted only for a type of at most
\* one entry, of shape (), and then stands for "no parameter needed".
ParseParameter(ptype, mu) ==
    IF mu.none
    THEN IF Cardinality(DOMAIN ptype) <= 1 /\ \A n \in DOMAIN ptype : ptype[n].t = <<>>
         THEN [ok |-> TRUE, m |-> [n \in DOMAIN ptype |-> NoneArr]]
         ELSE [ok |-> FALSE, m |-> EmptyMap]
    ELSE IF Conforms(ptype, mu)
         THEN [ok |-> TRUE, m |-> [n \in DOMAIN ptype |-> mu.m[n]]]
         ELSE [ok |-> FALSE, m |-> EmptyMap]

(***************************************************************************)
(* Python and numpy semantics used by the functionals                      *)
(***************************************************************************)
RECURSIVE TupleLess(_, _)
TupleLess(a, b) ==
    IF a = <<>> THEN b # <<>>
    ELSE IF b = <<>> THEN FALSE
    ELSE IF Head(a) # Head(b) THEN Head(a) < Head(b)
    ELSE TupleLess(Tail(a), Tail(b))

\* coordinates < parameter_shape, parameter_shape a tuple. Python 2 orders
\* a number before any tuple; Python 3 refuses to order them.
PyLess(coordinates, shape, pyv) ==
    IF coordinates.k = "tuple"
    THEN (IF TupleLess(coordinates.t, shape) THEN "True" ELSE "False")
    ELSE IF pyv = 2 THEN "True" ELSE "TypeError"

\* a[i] for an integer i: the i-th sub-array along the first axis
IndexInt(a, i) ==
    IF a.k = "err" THEN a
    ELSE IF a.k # "arr" THEN Err("TypeError")
    ELSE IF a.sh = <<>> THEN Err("IndexError")
    ELSE IF i >= Head(a.sh) \/ i < 0 - Head(a.sh) THEN Err("IndexError")
    ELSE LET j == IF i < 0 THEN i + Head(a.sh) ELSE i
             size == ProdSeq(Tail(a.sh))
         IN  Val("arr", Tail(a.sh), SubSeq(a.d, j * size + 1, (j + 1) * size), a.s)

RECURSIVE IndexTuple(_, _)
IndexTuple(a, t) ==
    IF t = <<>> \/ a.k = "err" THEN a
    ELSE IndexTuple(IndexInt(a, Head(t)), Tail(t))

\* a[coordinates]
Index(a, coordinates) ==
    IF coordinates.k = "int" THEN IndexInt(a, coordinates.n)
    ELSE IndexTuple(a, coordinates.t)

(***************************************************************************)
(* Functional instances                                                    *)
(***************************************************************************)
\* log: the attribute assignments and lock() in the order the constructor
\* made them; err: the exception the constructor raised, "" if none;
\* state/origin: the pickled state an instance was restored from and the
\* instance that state was taken from (<<>> and 0 for a fresh instance);
\* arg: the coordinates argument the constructor was called with
Obj(kind, log, err, name, ptype, pname, coordinates, mapping, expression, code, state) ==
    [kind |-> kind, log |-> log, err |-> err, name |-> name,
     parameter_type |-> ptype, parameter_name |-> pname,
     coordinates |-> coordinates, mapping |-> mapping,
     expression |-> expression, code |-> code, state |-> state, origin |-> 0,
     arg |-> NoneC]

NoObj == Obj("none", <<>>, "", NoneName, EmptyMap, "", NoneC, "", <<>>, <<>>, <<>>)

Range(s) == {s[i] : i \in 1 .. Len(s)}

\* the lifecycle state a constructor has reached
StateOf(o) ==
    IF "lock" \in Range(o.log) THEN "LOCKED"
    ELSE IF "parameter_type" \in Range(o.log) THEN "TYPE_DECLARED"
    ELSE "UNINITIALIZED"

Locked(o) == o.kind # "none" /\ StateOf(o) = "LOCKED"

(***************************************************************************)
(* ProjectionParameterFunctional                                           *)
(***************************************************************************)
ProjectionStepsLockEarly ==
    <<"name", "parameter_type", "parameter_name", "lock", "coordinates">>

\* __init__, lines 32-40, in statement order
ProjectionSteps ==
    <<"name", "parameter_type", "parameter_name", "coordinates", "lock">>

\* line 38: assert coordinates is not None and coordinates < parameter_shape
AssertCoordinates(coordinates, shape, pyv) ==
    IF coordinates.k = "none" THEN "AssertionError"
    ELSE LET c == PyLess(coordinates, shape, pyv)
         IN  IF c = "TypeError" THEN "TypeError"
             ELSE IF c = "True" THEN "" ELSE "AssertionError"

CheckCoordinatesAlways(coordinates, shape, pyv) ==
    AssertCoordinates(coordinates, shape, pyv)

\* lines 37-38
CheckCoordinates(coordinates, shape, pyv) ==
    IF SumSeq(shape) > 1 THEN AssertCoordinates(coordinates, shape, pyv) ELSE ""

ProjectionInit(parameter_name, parameter_shape, coordinates, name, pyv) ==
    LET shape == Normalize(parameter_shape)
        ptype == BuildParameterType([n \in {parameter_name} |-> TupleShape(shape)])
        err   == CheckCoordinates(coordinates, shape, pyv)
    IN  IF err = ""
        THEN [Obj("projection", ProjectionSteps, "", name, ptype, parameter_name,
                  coordinates, "", <<>>, <<>>, <<>>) EXCEPT !.arg = coordinates]
        ELSE [Obj("projection", SubSeq(ProjectionSteps, 1, 3), err, name, ptype,
                  parameter_name, NoneC, "", <<>>, <<>>, <<>>) EXCEPT !.arg = coordinates]

\* the outcome of one evaluate call: the steps it took and what it returned
\* or raised; resolved: where each name of an expression was found
Outcome(events, result, resolved) ==
    [events |-> events, result |-> result, resolved |-> resolved]

\* mu[key]
GetItem(m, key) == IF key \in DOMAIN m THEN ArrVal(m[key]) ELSE Err("KeyError")

\* evaluate, lines 42-47
ProjectionEvaluate(o, mu) ==
    LET p == ParseParameter(o.parameter_type, mu)
    IN  IF ~p.ok THEN Outcome(<<"parse_parameter">>, Err("TypeMismatch"), {})
        ELSE IF o.coordinates.k = "none"
        THEN Outcome(<<"parse_parameter", "rule">>, GetItem(p.m, o.parameter_name), {})
        ELSE Outcome(<<"parse_parameter", "rule">>,
                     Index(GetItem(p.m, o.parameter_name), o.coordinates), {})

(***************************************************************************)
(* Expressions: compile(expression, '<dune expression>', 'eval') and eval  *)
(***************************************************************************)
\* An expression is its token sequence. The grammar is the part of Python's
\* expression grammar the expressions below use:
\*   sum := term ('+' term)*      term := atom ('*' atom)*
\*   atom := (NUMBER | NAME) trailer*
\*   trailer := '.' NAME | '(' ')' | '(' (STRING | sum) ')'
NumTok == ("0" :> 0) @@ ("1" :> 1) @@ ("2" :> 2)

StrTok == ("'os'" :> "os") @@ ("'x'" :> "x")

Punct == {"+", "*", "(", ")", "."}

IsName(t) == t \notin DOMAIN NumTok /\ t \notin DOMAIN StrTok /\ t \notin Punct

Ins(op, s, n) == [op |-> op, s |-> s, n |-> n]

POk(pos, code) == [ok |-> TRUE, pos |-> pos, code |-> code]

PFail == [ok |-> FALSE, pos |-> 0, code |-> <<>>]

At(toks, pos, t) == pos <= Len(toks) /\ toks[pos] = t

RECURSIVE ParseTrailers(_, _, _), ParseTermRest(_, _, _), ParseSumRest(_, _, _)
RECURSIVE ParseAtom(_, _), ParseTerm(_, _), ParseSum(_, _), ParseArg(_, _)

ParseAtom(toks, pos) ==
    IF pos > Len(toks) THEN PFail
    ELSE IF toks[pos] \in DOMAIN NumTok
    THEN ParseTrailers(toks, pos + 1, <<Ins("LOAD_CONST", "", NumTok[toks[pos]])>>)
    ELSE IF IsName(toks[pos])
    THEN ParseTrailers(toks, pos + 1, <<Ins("LOAD_NAME", toks[pos], 0)>>)
    ELSE PFail

ParseArg(toks, pos) ==
    IF pos <= Len(toks) /\ toks[pos] \in DOMAIN StrTok
    THEN POk(pos + 1, <<Ins("LOAD_STR", StrTok[toks[pos]], 0)>>)
    ELSE ParseSum(toks, pos)

ParseTrailers(toks, pos, code) ==
    IF At(toks, pos, ".")
    THEN IF pos + 1 <= Len(toks) /\ IsName(toks[pos + 1])
         THEN ParseTrailers(toks, pos + 2, Append(code, Ins("LOAD_ATTR", toks[pos + 1], 0)))
         ELSE PFail
    ELSE IF At(toks, pos, "(")
    THEN IF At(toks, pos + 1, ")")
         THEN ParseTrailers(toks, pos + 2, Append(code, Ins("CALL", "", 0)))
         ELSE LET a == ParseArg(toks, pos + 1)
              IN  IF a.ok /\ At(toks, a.pos, ")")
                  THEN ParseTrailers(toks, a.pos + 1, code \o a.code \o <<Ins("CALL", "", 1)>>)
                  ELSE PFail
    ELSE POk(pos, code)

ParseTermRest(toks, pos, code) ==
    IF At(toks, pos, "*")
    THEN LET a == ParseAtom(toks, pos + 1)
         IN  IF a.ok
             THEN ParseTermRest(toks, a.pos, code \o a.code \o <<Ins("BINARY_MULTIPLY", "", 0)>>)
             ELSE PFail
    ELSE POk(pos, code)

ParseTerm(toks, pos) ==
    LET a == ParseAtom(toks, pos)
    IN  IF a.ok THEN ParseTermRest(toks, a.pos, a.code) ELSE PFail

ParseSumRest(toks, pos, code) ==
    IF At(toks, pos, "+")
    THEN LET a == ParseTerm(toks, pos + 1)
         IN  IF a.ok
             THEN ParseSumRest(toks, a.pos, code \o a.code \o <<Ins("BINARY_ADD", "", 0)>>)
             ELSE PFail
    ELSE POk(pos, code)

ParseSum(toks, pos) ==
    LET a == ParseTerm(toks, pos)
    IN  IF a.ok THEN ParseSumRest(toks, a.pos, a.code) ELSE PFail

\* compile(expression, ..., 'eval'), line 85: the code object, or SyntaxError
Compile(expression) ==
    LET r == ParseSum(expression, 1)
    IN  IF r.ok /\ r.pos = Len(expression) + 1
        THEN [ok |-> TRUE, code |-> r.code]
        ELSE [ok |-> FALSE, code |-> <<>>]

\* the names a code object loads
NamesOf(code) == {code[i].s : i \in {j \in 1 .. Len(code) : code[j].op = "LOAD_NAME"}}

\* lines 77-81: the keys of the class attribute `functions`
Whitelist ==
    {"sin", "cos", "tan", "arcsin", "arccos", "arctan",
     "sinh", "cosh", "tanh", "arcsinh", "arccosh", "arctanh",
     "exp", "exp2", "log", "log2", "log10",
     "min", "minimum", "max", "maximum"}

\* names of the builtins module that the expressions below use
Builtins == {"abs", "__import__"}

BuiltinsKey == "__builtins__"

\* eval inserts a reference to the builtins module into a globals dict that
\* lacks the key "__builtins__" before it evaluates the code
EvalGlobals(globals) == globals \cup {BuiltinsKey}

LookupGlobalsFirst(n, locals, globals) ==
    IF n \in globals \ {BuiltinsKey} THEN "global"
    ELSE IF n \in DOMAIN locals THEN "local"
    ELSE IF n = BuiltinsKey /\ n \in globals THEN "global"
    ELSE IF BuiltinsKey \in globals /\ n \in Builtins THEN "builtin"
    ELSE "unbound"

\* where LOAD_NAME finds a name: locals, then globals, then the builtins
\* that globals["__builtins__"] refers to
Lookup(n, locals, globals) ==
    IF n \in DOMAIN locals THEN "local"
    ELSE IF n \in globals THEN "global"
    ELSE IF BuiltinsKey \in globals /\ n \in Builtins THEN "builtin"
    ELSE "unbound"

LoadName(n, locals, globals) ==
    LET w == Lookup(n, locals, globals)
    IN  IF w = "local" THEN ArrVal(locals[n])
        ELSE IF w = "global" THEN (IF n = BuiltinsKey THEN Module("builtins") ELSE NpFunc(n))
        ELSE IF w = "builtin" THEN Builtin(n)
        ELSE Err("NameError")

Abs(n) == IF n < 0 THEN 0 - n ELSE n

\* f(a) for the callables an expression can reach
CallValue(f, args) ==
    IF f.k = "npfunc"
    THEN IF Len(args) = 1 /\ args[1].k = "arr"
         THEN Val("arr", args[1].sh, args[1].d, Append(args[1].s, f.s[1]))
         ELSE Err("TypeError")
    ELSE IF f.k = "builtin" /\ f.s[1] = "abs"
    THEN IF Len(args) = 1 /\ args[1].k = "arr"
         THEN Val("arr", args[1].sh, [i \in 1 .. Len(args[1].d) |-> Abs(args[1].d[i])], args[1].s)
         ELSE Err("TypeError")
    ELSE IF f.k = "builtin" /\ f.s[1] = "__import__"
    THEN IF Len(args) = 1 /\ args[1].k = "str" THEN Module(args[1].s[1]) ELSE Err("TypeError")
    ELSE IF f.k = "modattr"
    THEN Val("executed", <<>>, <<>>, f.s)
    ELSE Err("TypeError")

\* a.name
GetAttr(a, name) ==
    IF a.k = "module" THEN Val("modattr", <<>>, <<>>, Append(a.s, name))
    ELSE Err("AttributeError")

\* a op b on numeric operands; a scalar broadcasts
BinaryOp(op, a, b) ==
    IF a.k # "arr" \/ b.k # "arr" THEN Err("TypeError")
    ELSE IF a.sh # b.sh /\ a.sh # <<>> /\ b.sh # <<>> THEN Err("ValueError")
    ELSE LET sh == IF a.sh = <<>> THEN b.sh ELSE a.sh
             n  == ProdSeq(sh)
             x(i) == IF a.sh = <<>> THEN a.d[1] ELSE a.d[i]
             y(i) == IF b.sh = <<>> THEN b.d[1] ELSE b.d[i]
         IN  IF a.s # <<>> \/ b.s # <<>>
             THEN Val("arr", sh, [i \in 1 .. n |-> x(i)], a.s \o b.s \o <<op>>)
             ELSE Val("arr", sh,
                      [i \in 1 .. n |-> IF op = "BINARY_ADD" THEN x(i) + y(i) ELSE x(i) * y(i)],
                      <<>>)

RECURSIVE Run(_, _, _, _, _)
\* the evaluation of a code object: the value left on the stack, or the
\* first exception raised
Run(code, pc, stack, locals, globals) ==
    IF pc > Len(code) THEN stack[Len(stack)]
    ELSE LET ins == code[pc]
             n   == Len(stack)
             v == CASE ins.op = "LOAD_CONST" -> Scalar(ins.n)
                    [] ins.op = "LOAD_STR" -> Str(ins.s)
                    [] ins.op = "LOAD_NAME" -> LoadName(ins.s, locals, globals)
                    [] ins.op = "LOAD_ATTR" -> GetAttr(stack[n], ins.s)
                    [] ins.op = "CALL" ->
                         CallValue(stack[n - ins.n], SubSeq(stack, n - ins.n + 1, n))
                    [] OTHER -> BinaryOp(ins.op, stack[n - 1], stack[n])
             pops == CASE ins.op \in {"LOAD_CONST", "LOAD_STR", "LOAD_NAME"} -> 0
                       [] ins.op = "LOAD_ATTR" -> 1
                       [] ins.op = "CALL" -> ins.n + 1
                       [] OTHER -> 2
         IN  IF v.k = "err" THEN v
             ELSE Run(code, pc + 1, Append(SubSeq(stack, 1, n - pops), v), locals, globals)

\* eval(code, globals, locals), line 86
Eval(code, globals, locals) == Run(code, 1, <<>>, locals, EvalGlobals(globals))

(***************************************************************************)
(* GenericParameterFunctional and ExpressionParameterFunctional            *)
(***************************************************************************)
\* GenericParameterFunctional.__init__, lines 65-68, in statement order
GenericSteps == <<"name", "_mapping", "parameter_type", "lock">>

GenericInit(mapping, parameter_type, name) ==
    Obj("generic", GenericSteps, "", name, BuildParameterType(parameter_type), "",
        NoneC, mapping, <<>>, <<>>, <<>>)

\* ExpressionParameterFunctional.__init__, lines 84-87
ExpressionInit(expression, parameter_type, name) ==
    LET c == Compile(expression)
        g == GenericInit("lambda", parameter_type, name)
    IN  IF ~c.ok
        THEN Obj("expression", <<"expression">>, "SyntaxError", NoneName, EmptyMap, "",
                 NoneC, "", expression, <<>>, <<>>)
        ELSE [g EXCEPT !.kind = "expression", !.log = <<"expression">> \o g.log,
                       !.expression = expression, !.code = c.code]

\* self._mapping(mu): a caller's function, or the lambda of line 86
ApplyMapping(o, m, globals) ==
    IF o.mapping = "lambda" THEN Eval(o.code, globals, m)
    ELSE IF o.mapping = "seven" THEN Scalar(7)
    ELSE Err("ValueError")

Resolved(o, m, globals) ==
    IF o.mapping = "lambda"
    THEN {<<n, Lookup(n, m, EvalGlobals(globals))>> : n \in NamesOf(o.code)}
    ELSE {}

GenericEvaluateRuleFirst(o, mu, globals) ==
    LET p == ParseParameter(o.parameter_type, mu)
        m == IF mu.none THEN EmptyMap ELSE mu.m
    IN  IF ~p.ok
        THEN Outcome(<<"rule", "parse_parameter">>, Err("TypeMismatch"), Resolved(o, m, globals))
        ELSE Outcome(<<"rule", "parse_parameter">>, ApplyMapping(o, m, globals),
                     Resolved(o, m, globals))

\* GenericParameterFunctional.evaluate, lines 70-72
GenericEvaluate(o, mu, globals) ==
    LET p == ParseParameter(o.parameter_type, mu)
    IN  IF ~p.ok THEN Outcome(<<"parse_parameter">>, Err("TypeMismatch"), {})
        ELSE Outcome(<<"parse_parameter", "rule">>, ApplyMapping(o, p.m, globals),
                     Resolved(o, p.m, globals))

\* evaluate, dispatched on the class of the instance
EvaluateCall(o, mu, globals) ==
    IF o.kind = "projection" THEN ProjectionEvaluate(o, mu)
    ELSE GenericEvaluate(o, mu, globals)

\* the class attribute `functions` after an evaluate call: it is the
\* globals dict of every eval the call made
FunctionsAfter(o, out, globals) ==
    IF o.mapping = "lambda" /\ "rule" \in Range(out.events)
    THEN EvalGlobals(globals)
    ELSE globals

GetStateNoType(o) == <<o.expression, EmptyMap, o.name>>

\* __getstate__, lines 92-93
GetState(o) == <<o.expression, o.parameter_type, o.name>>

\* __setstate__, lines 95-96: self.__init__(*state)
SetState(state) == ExpressionInit(state[1], state[2], state[3])

(***************************************************************************)
(* Inputs                                                                  *)
(***************************************************************************)
ParameterShapes ==
    {IntShape(0), IntShape(3), TupleShape(<<>>), TupleShape(<<1>>),
     TupleShape(<<3>>), TupleShape(<<1, 1>>)}

CoordinateArgs ==
    {NoneC, IntC(0), IntC(1), IntC(5), TupleC(<<1>>), TupleC(<<5>>)}

FunctionalNames == {"f"}

Mappings == {"seven", "raises"}

Expressions ==
    {<<"2", "*", "x">>,
     <<"sin", "(", "x", ")">>,
     <<"sin", "+", "x">>,
     <<"abs", "(", "x", ")">>,
     <<"__import__", "(", "'os'", ")", ".", "system", "(", "'x'", ")">>,
     <<"os", ".", "system", "(", "'x'", ")">>,
     <<"2", "*">>}

ParameterTypes ==
    {[n \in {"x"} |-> IntShape(0)],
     [n \in {"x", "sin"} |-> TupleShape(<<>>)]}

MuInputs ==
    {NoneMu,
     Mu([n \in {"x"} |-> Arr(<<>>, <<2>>)]),
     Mu([n \in {"x"} |-> Arr(<<>>, <<0 - 5>>)]),
     Mu([n \in {"y"} |-> Arr(<<>>, <<1>>)]),
     Mu([n \in {"x", "sin"} |-> IF n = "x" THEN Arr(<<>>, <<2>>) ELSE Arr(<<>>, <<3>>)]),
     Mu([n \in {"x"} |-> Arr(<<1>>, <<4>>)]),
     Mu([n \in {"x"} |-> Arr(<<3>>, <<7, 8, 9>>)]),
     Mu([n \in {"x"} |-> Arr(<<1, 1>>, <<6>>)])}

(***************************************************************************)
(* The matrix loader, src/pymor/tools/io.py                                *)
(***************************************************************************)
\* A file name is the sequence of its characters.
Lower(c) ==
    CASE c = "M" -> "m" [] c = "T" -> "t" [] c = "X" -> "x" [] OTHER -> c

LowerAll(cs) == [i \in 1 .. Len(cs) |-> Lower(cs[i])]

RECURSIVE LStripDots(_)
LStripDots(cs) ==
    IF cs # <<>> /\ Head(cs) = "." THEN LStripDots(Tail(cs)) ELSE cs

RECURSIVE SplitDots(_, _)
\* name.split('.'), cur the piece being read
SplitDots(cs, cur) ==
    IF cs = <<>> THEN <<cur>>
    ELSE IF Head(cs) = "." THEN <<cur>> \o SplitDots(Tail(cs), <<>>)
    ELSE SplitDots(Tail(cs), Append(cur, Head(cs)))

\* pathlib's PurePath.suffixes, line 92
Suffixes(name) ==
    IF name # <<>> /\ name[Len(name)] = "." THEN <<>>
    ELSE LET parts == Tail(SplitDots(LStripDots(name), <<>>))
         IN  [i \in 1 .. Len(parts) |-> <<".">> \o parts[i]]

NoExtension == <<>>

CrashExtension == <<"IndexError">>

\* lines 92-98: the extension load_matrix dispatches on; the elif of line 95
\* reads path.suffixes[-1] before it tests suffix_count
Extension(name) ==
    LET sfx == Suffixes(name)
        n   == Len(sfx)
    IN  IF n # 0 /\ Len(sfx[n]) = 4 THEN LowerAll(sfx[n])
        ELSE IF n = 0 THEN CrashExtension
        ELSE IF LowerAll(sfx[n]) = <<".", "g", "z">> /\ n >= 2 /\ Len(sfx[n - 1]) = 4
        THEN LowerAll(sfx[n - 1] \o <<".">> \o sfx[n])
        ELSE NoExtension

\* lines 100-105
FileFormatMap ==
    (<<".", "m", "a", "t">> :> "_loadmat") @@
    (<<".", "m", "t", "x">> :> "_mmread") @@
    (<<".", "m", "t", "z", ".", "g", "z">> :> "_mmread") @@
    (<<".", "n", "p", "y">> :> "_load") @@
    (<<".", "n", "p", "z">> :> "_load") @@
    (<<".", "t", "x", "t">> :> "_loadtxt")

\* key: None or a string
NoKey == [none |-> TRUE, s |-> ""]

Key(k) == [none |-> FALSE, s |-> k]

\* `if key:`
Truthy(key) == ~key.none /\ key.s # ""

Loaded(m) == [kind |-> "ok", matrix |-> m, exc |-> "", msg |-> ""]

Raised(exc, msg) == [kind |-> "raise", matrix |-> "", exc |-> exc, msg |-> msg]

\* The libraries. Each reads the one format it is written for and raises on
\* every other file; the matrix of a single-matrix file is "M", the arrays
\* of a container are named by their keys.
LibLoadmat(f) == IF f.fmt = "mat" THEN Loaded("dict") ELSE Raised("Exception", "loadmat")

LibMmread(f) == IF f.fmt = "mtx" THEN Loaded("M") ELSE Raised("Exception", "mmread")

LibLoadtxt(f) == IF f.fmt = "txt" THEN Loaded("M") ELSE Raised("Exception", "loadtxt")

LibNpLoad(f) ==
    IF f.fmt = "npy" THEN Loaded("M")
    ELSE IF f.fmt = "npz" THEN Loaded("dict")
    ELSE IF f.fmt = "missing" THEN Raised("IOError", "np.load")
    ELSE Raised(f.npErr, "np.load")

\* one of a set of one element
TheOne(S) == CHOOSE x \in S : TRUE

\* _loadmat, lines 19-39
LoadMat(f, key) ==
    LET data == LibLoadmat(f)
    IN  IF data.kind = "raise" THEN Raised("IOError", "loadmat")
        ELSE IF Truthy(key)
        THEN IF key.s \in f.entries THEN Loaded(key.s)
             ELSE Raised("IOError", "key not found in MATLAB file")
        ELSE IF Cardinality(f.entries) = 0 THEN Raised("IOError", "no matrix data")
        ELSE IF Cardinality(f.entries) > 1 THEN Raised("IOError", "more than one matrix")
        ELSE Loaded(TheOne(f.entries))

MmreadNoKeyCheck(f, key) ==
    LET m == LibMmread(f)
    IN  IF m.kind = "raise" THEN Raised("IOError", "mmread") ELSE m

\* _mmread, lines 42-52
Mmread(f, key) ==
    IF Truthy(key) THEN Raised("IOError", "cannot specify key for Matrix Market file")
    ELSE LET m == LibMmread(f)
         IN  IF m.kind = "raise" THEN Raised("IOError", "mmread") ELSE m

\* _load, lines 55-73: np.load is called outside any try
Load(f, key) ==
    LET data == LibNpLoad(f)
    IN  IF data.kind = "raise" THEN data
        ELSE IF data.matrix = "dict"
        THEN IF Truthy(key)
             THEN IF key.s \in f.entries THEN Loaded(key.s)
                  ELSE Raised("IOError", "key not found in NPY file")
             ELSE IF Cardinality(f.entries) = 0 THEN Raised("IOError", "no data")
             ELSE IF Cardinality(f.entries) > 1 THEN Raised("IOError", "more than one object")
             ELSE Loaded(TheOne(f.entries))
        ELSE data

\* _loadtxt, lines 76-82
Loadtxt(f, key) ==
    IF Truthy(key) THEN Raised("IOError", "cannot specify key for TXT file")
    ELSE LET m == LibLoadtxt(f)
         IN  IF m.kind = "raise" THEN Raised("IOError", "loadtxt") ELSE m

RunLoader(loader, f, key) ==
    CASE loader = "_loadmat" -> LoadMat(f, key)
      [] loader = "_mmread" -> Mmread(f, key)
      [] loader = "_loadtxt" -> Loadtxt(f, key)
      [] OTHER -> Load(f, key)

\* line 114
Loaders == <<"_loadmat", "_mmread", "_loadtxt", "_load">>

RECURSIVE TryLoaders(_, _, _, _)
\* lines 115-121: the loaders in turn, an IOError moves on to the next
TryLoaders(k, f, key, tried) ==
    IF k > Len(Loaders)
    THEN [result |-> Raised("IOError", "could not load file (path, key)"), tried |-> tried]
    ELSE LET r == RunLoader(Loaders[k], f, key)
         IN  IF r.kind = "raise" /\ r.exc = "IOError"
             THEN TryLoaders(k + 1, f, key, Append(tried, Loaders[k]))
             ELSE [result |-> r, tried |-> Append(tried, Loaders[k])]

\* load_matrix, lines 85-121
LoadMatrixCall(name, key, f) ==
    LET extension == Extension(name)
    IN  IF extension = CrashExtension
        THEN [result |-> Raised("IndexError", "list index out of range"), tried |-> <<>>]
        ELSE IF extension \in DOMAIN FileFormatMap
        THEN [result |-> RunLoader(FileFormatMap[extension], f, key),
              tried |-> <<FileFormatMap[extension]>>]
        ELSE TryLoaders(1, f, key, <<>>)

FileNames ==
    {<<"m", ".", "m", "a", "t">>,
     <<"m", ".", "m", "t", "x">>,
     <<"m", ".", "M", "T", "X">>,
     <<"m", ".", "t", "x", "t">>,
     <<"m", ".", "n", "p", "y">>,
     <<"m", ".", "n", "p", "z">>,
     <<"m", ".", "d", "a", "t">>,
     <<"m">>,
     <<"m", ".">>,
     <<"m", ".", "h", "5">>,
     <<"m", ".", "g", "z">>,
     <<"m", ".", "m", "t", "x", ".", "g", "z">>,
     <<"m", ".", "m", "t", "z", ".", "g", "z">>}

Keys == {NoKey, Key(""), Key("A"), Key("C")}

File(fmt, entries, npErr) == [fmt |-> fmt, entries |-> entries, npErr |-> npErr]

Files ==
    {File(fmt, {}, e) : fmt \in {"mtx", "txt", "npy", "garbage", "missing"},
                        e \in {"IOError", "ValueError"}}
    \cup {File(fmt, entries, e) : fmt \in {"mat", "npz"},
                                  entries \in {{}, {"A"}, {"A", "B"}},
                                  e \in {"IOError", "ValueError"}}

NoFile == File("missing", {}, "IOError")

NoLoad == [done |-> FALSE, name |-> <<>>, key |-> NoKey,
           result |-> Raised("", ""), tried |-> <<>>]

NoCall == [obj |-> 0, mu |-> NoneMu, events |-> <<>>, result |-> NoValue,
           resolved |-> {}, before |-> {}]

InitLoader ==
    /\ py = 3
    /\ functions = Whitelist
    /\ objs = [i \in Inst |-> NoObj]
    /\ last = NoCall
    /\ file \in Files
    /\ call = NoLoad

LoadMatrix ==
    /\ \E name \in FileNames, key \in Keys :
          LET out == LoadMatrixCall(name, key, file)
          IN  call' = [done |-> TRUE, name |-> name, key |-> key,
                       result |-> out.result, tried |-> out.tried]
    /\ UNCHANGED <<py, functions, objs, last, file>>

NextLoader == LoadMatrix

SpecLoader == InitLoader /\ [][NextLoader]_vars

\* the formats the spec lists, by the last suffix of the name
RecognizedSuffixes ==
    {<<".", "m", "a", "t">>, <<".", "m", "t", "x">>, <<".", "n", "p", "y">>,
     <<".", "n", "p", "z">>, <<".", "t", "x", "t">>}

LastSuffix(name) ==
    LET sfx == Suffixes(name)
    IN  IF sfx = <<>> THEN <<>> ELSE LowerAll(sfx[Len(sfx)])

IsPrefix(a, b) == Len(a) <= Len(b) /\ SubSeq(b, 1, Len(a)) = a

\* C5: on a path whose extension is not recognized (none at all, or a
\* two-part one ending in .gz, included) the loaders run in the order
\* MATLAB, Matrix Market, text, NPY/NPZ, the first success is returned, and
\* otherwise the one I/O error of line 121 is raised; nothing else escapes.
C5_FallbackOrder ==
    (call.done /\ LastSuffix(call.name) \notin RecognizedSuffixes) =>
       /\ IsPrefix(call.tried, Loaders)
       /\ call.tried # <<>>
       /\ \A k \in 1 .. Len(call.tried) - 1 :
             RunLoader(call.tried[k], file, call.key).kind = "raise"
       /\ \/ call.result.kind = "ok"
          \/ /\ call.result = Raised("IOError", "could not load file (path, key)")
             /\ call.tried = Loaders

Free(i) == objs[i].kind = "none" /\ (IF i = 1 THEN TRUE ELSE objs[i - 1].kind # "none")

Init ==
    /\ py \in {2, 3}
    /\ functions = Whitelist
    /\ objs = [i \in Inst |-> NoObj]
    /\ last = NoCall
    /\ file = NoFile
    /\ call = NoLoad

NewProjection(i) ==
    /\ Free(i)
    /\ \E shape \in ParameterShapes, c \in CoordinateArgs, name \in FunctionalNames :
          objs' = [objs EXCEPT ![i] = ProjectionInit("x", shape, c, name, py)]
    /\ UNCHANGED <<py, functions, last, file, call>>

NewGeneric(i) ==
    /\ Free(i)
    /\ \E mapping \in Mappings, name \in FunctionalNames :
          objs' = [objs EXCEPT ![i] =
                      GenericInit(mapping, [n \in {"x"} |-> IntShape(0)], name)]
    /\ UNCHANGED <<py, functions, last, file, call>>

NewExpression(i) ==
    /\ Free(i)
    /\ \E e \in Expressions, t \in ParameterTypes, name \in FunctionalNames :
          objs' = [objs EXCEPT ![i] = ExpressionInit(e, t, name)]
    /\ UNCHANGED <<py, functions, last, file, call>>

\* pickle.loads(pickle.dumps(objs[i])) into a new instance
Restore(i, j) ==
    /\ Locked(objs[i]) /\ objs[i].kind = "expression"
    /\ Free(j)
    /\ LET state == GetState(objs[i])
       IN  objs' = [objs EXCEPT ![j] = [SetState(state) EXCEPT !.state = state,
                                                              !.origin = i]]
    /\ UNCHANGED <<py, functions, last, file, call>>

Evaluate(i) ==
    /\ Locked(objs[i])
    /\ \E mu \in MuInputs :
          LET out == EvaluateCall(objs[i], mu, functions)
          IN  /\ last' = [obj |-> i, mu |-> mu, events |-> out.events,
                          result |-> out.result, resolved |-> out.resolved,
                          before |-> functions]
              /\ functions' = FunctionsAfter(objs[i], out, functions)
    /\ UNCHANGED <<py, objs, file, call>>

Next ==
    \/ \E i \in Inst : NewProjection(i)
    \/ \E i \in Inst : NewGeneric(i)
    \/ \E i \in Inst : NewExpression(i)
    \/ \E i, j \in Inst : Restore(i, j)
    \/ \E i \in Inst : Evaluate(i)

Spec == Init /\ [][Next]_vars

(***************************************************************************)
(* Properties of the functionals                                           *)
(***************************************************************************)
ShapeOf(o) == o.parameter_type[o.parameter_name].t

\* a coordinates value that is an index into an array of the given shape
ValidIndex(c, shape) ==
    IF c.k = "int" THEN Len(shape) >= 1 /\ 0 <= c.n /\ c.n < shape[1]
    ELSE /\ c.k = "tuple"
         /\ Len(c.t) = Len(shape)
         /\ \A k \in 1 .. Len(shape) : 0 <= c.t[k] /\ c.t[k] < shape[k]

\* the last evaluate call was made on instance i with a conforming value
LastOn(i) == last.obj = i /\ Conforms(objs[i].parameter_type, last.mu)

ExpressionCallRan ==
    /\ last.obj # 0
    /\ objs[last.obj].kind = "expression"
    /\ "rule" \in Range(last.events)

\* C1: the namespace an expression is evaluated in holds only the 21
\* whitelisted functions and the parameter bindings; no name resolves to a
\* builtin, and an expression naming anything else fails without running.
C1_NamespaceIsWhitelist ==
    /\ functions \subseteq Whitelist
    /\ ExpressionCallRan =>
         /\ \A r \in last.resolved :
               /\ r[2] # "builtin"
               /\ r[2] = "global" => r[1] \in Whitelist
         /\ (\E n \in NamesOf(objs[last.obj].code) :
                n \notin Whitelist \cup DOMAIN objs[last.obj].parameter_type)
            => last.result = Err("NameError")

\* C2: for a shape of more than one element, construction succeeds exactly
\* when coordinates is given and is a valid index below the extent, and
\* evaluate then returns the element at that index.
C2_CoordinatesRequired ==
    \A i \in Inst :
       LET o == objs[i]
       IN  (o.kind = "projection" /\ ProdSeq(ShapeOf(o)) > 1) =>
             /\ (o.err = "") <=> (o.arg.k # "none" /\ ValidIndex(o.arg, ShapeOf(o)))
             /\ (o.err = "" /\ LastOn(i)) =>
                   last.result = Index(ArrVal(last.mu.m[o.parameter_name]), o.arg)

\* C3: evaluate validates the value first; a value that misses a declared
\* name or has a mismatched shape fails with a type mismatch, and neither
\* the mapping, the compiled expression nor the component lookup runs.
C3_ValidatedBeforeRule ==
    last.obj # 0 =>
       /\ last.events[1] = "parse_parameter"
       /\ (~last.mu.none /\ ~Conforms(objs[last.obj].parameter_type, last.mu)) =>
             /\ last.events = <<"parse_parameter">>
             /\ last.result = Err("TypeMismatch")
             /\ functions = last.before

C3_Witness ==
    /\ last.obj # 0
    /\ objs[last.obj].kind = "expression"
    /\ "x" \notin DOMAIN last.mu.m /\ ~last.mu.none
    /\ last.result = Err("TypeMismatch")

\* C4: the pickled state of an expression functional is exactly the triple
\* (expression, parameter_type, name); restoring runs the whole constructor
\* on it (compile, build the parameter type, lock), and the restored
\* functional returns what the original returns on every conforming value.
C4_RestoreRoundTrip ==
    \A j \in Inst :
       LET r == objs[j]
       IN  r.origin # 0 =>
             LET f == objs[r.origin]
             IN  /\ r.state = <<f.expression, f.parameter_type, f.name>>
                 /\ r.log = <<"expression">> \o GenericSteps
                 /\ r.code = Compile(r.state[1]).code
                 /\ Locked(r)
                 /\ \A mu \in MuInputs :
                       Conforms(f.parameter_type, mu) =>
                          EvaluateCall(r, mu, functions).result
                             = EvaluateCall(f, mu, functions).result

C4_Witness ==
    /\ last.obj # 0
    /\ objs[last.obj].origin # 0
    /\ objs[last.obj].expression = <<"2", "*", "x">>
    /\ last.result = Scalar(4)

\* C7 as amended: for a shape whose entries sum to at most 1 the constructor
\* accepts any coordinates and stores it; evaluate returns mu[name] when
\* coordinates is None and mu[name][coordinates] otherwise.
C7_CoordinatesStored ==
    \A i \in Inst :
       LET o == objs[i]
       IN  (o.kind = "projection" /\ SumSeq(ShapeOf(o)) <= 1) =>
             /\ o.err = "" /\ Locked(o) /\ o.coordinates = o.arg
             /\ LastOn(i) =>
                   last.result =
                      IF o.arg.k = "none" THEN ArrVal(last.mu.m[o.parameter_name])
                      ELSE Index(ArrVal(last.mu.m[o.parameter_name]), o.arg)

C7_Witness ==
    /\ last.obj # 0
    /\ objs[last.obj].kind = "projection"
    /\ ShapeOf(objs[last.obj]) = <<1>>
    /\ objs[last.obj].arg = IntC(0)
    /\ last.result = Scalar(4)

\* C7 as stated: for a shape of at most one element coordinates is
\* ignored: construction succeeds and evaluate returns mu[name].
C7_CoordinatesIgnored ==
    \A i \in Inst :
       LET o == objs[i]
       IN  (o.kind = "projection" /\ ProdSeq(ShapeOf(o)) <= 1) =>
             /\ o.err = ""
             /\ LastOn(i) => last.result = ArrVal(last.mu.m[o.parameter_name])

\* C8: no evaluate call writes state shared between instances; the class
\* attribute `functions` is the same before and after every step.
C8_FunctionsUnchanged == [][functions' = functions]_vars

EvalAttrs(kind) ==
    IF kind = "projection" THEN {"name", "parameter_type", "parameter_name", "coordinates"}
    ELSE IF kind = "generic" THEN {"name", "parameter_type", "_mapping"}
    ELSE {"name", "parameter_type", "_mapping", "expression"}

\* C9: a constructor declares the parameter type before it locks, lock() is
\* its last step with every attribute that affects evaluation assigned
\* before it, and a constructor that raises never locks.
C9_LockedLast ==
    \A i \in Inst :
       LET o == objs[i]
           n == Len(o.log)
       IN  o.kind # "none" =>
             /\ \A a, b \in 1 .. n :
                   (o.log[a] = "lock" /\ o.log[b] = "parameter_type") => b < a
             /\ o.err = "" =>
                   /\ o.log[n] = "lock"
                   /\ EvalAttrs(o.kind) \subseteq Range(SubSeq(o.log, 1, n - 1))
                   /\ "lock" \notin Range(SubSeq(o.log, 1, n - 1))
             /\ o.err # "" => ~Locked(o)

C9_Witness ==
    \E i, j \in Inst :
       /\ objs[i].kind = "projection" /\ objs[i].err = "AssertionError"
       /\ objs[j].kind = "expression" /\ Locked(objs[j])

\* C10: in an expression a name that is a declared parameter resolves to the
\* parameter value even when it is also a whitelisted function name; any
\* other whitelisted name resolves to the function.
C10_ParameterShadowsFunction ==
    ExpressionCallRan =>
       LET o == objs[last.obj]
       IN  /\ \A r \in last.resolved :
                 /\ r[1] \in DOMAIN o.parameter_type => r[2] = "local"
                 /\ (r[1] \notin DOMAIN o.parameter_type /\ r[1] \in Whitelist)
                       => r[2] = "global"
           /\ (o.expression = <<"sin", "+", "x">> /\ "sin" \in DOMAIN o.parameter_type
                 /\ Conforms(o.parameter_type, last.mu))
              => last.result = Scalar(last.mu.m["sin"].d[1] + last.mu.m["x"].d[1])
           /\ (o.expression = <<"sin", "(", "x", ")">> /\ "sin" \notin DOMAIN o.parameter_type
                 /\ Conforms(o.parameter_type, last.mu))
              => last.result = Val("arr", <<>>, last.mu.m["x"].d, <<"sin">>)

C10_Witness ==
    /\ ExpressionCallRan
    /\ objs[last.obj].expression = <<"sin", "+", "x">>
    /\ "sin" \in DOMAIN objs[last.obj].parameter_type
    /\ last.result = Scalar(5)

====
